---- MODULE Spec2Model ----
(***************************************************************************)
(* Model of seccomp-minimizer.py: the greedy, one-syscall-at-a-time        *)
(* minimisation of a seccomp profile, with the container runtime, the      *)
(* policy files and the HTTP workload as a nondeterministic environment.   *)
(*                                                                         *)
(* A profile is the sequence of its rule groups; a rule group is the list  *)
(* of its 'names' (a Python list: order and repetitions are kept).         *)
(* Syscall names are the numbers 1..MaxNames; the order of the numbers     *)
(* stands for the lexical order of the names.                              *)
(***************************************************************************)
EXTENDS Integers, Sequences, FiniteSets, TLC

\* Bounds of the model.
MaxNames == 2
MaxGroups == 2
MaxTotal == 3

Names == 1..MaxNames

Range(s) == {s[k] : k \in DOMAIN s}

-----------------------------------------------------------------------------
(* Profiles the baseline file may hold.                                    *)

NameLists(n) == [1..n -> Names]

RECURSIVE ProfilesOf(_, _)
ProfilesOf(g, t) ==
    IF g = 0 THEN {<<>>}
    ELSE UNION {{<<s>> \o rest : s \in NameLists(n), rest \in ProfilesOf(g - 1, t - n)} :
                n \in 0..t}

Profiles == UNION {ProfilesOf(g, MaxTotal) : g \in 0..MaxGroups}

-----------------------------------------------------------------------------
(* Policy files: json.dump into a file opened with 'w'.                    *)

Absent == [state |-> "absent", content |-> <<>>]
Partial == [state |-> "partial", content |-> <<>>]
Malformed == [state |-> "malformed", content |-> <<>>]
File(profile) == [state |-> "complete", content |-> profile]

\* load_seccomp_profile succeeds exactly on a complete document.
Loadable(file) == file.state = "complete"

load_seccomp_profile(file) == file.content

\* What a file can be after save_seccomp_profile(profile, path) returned.
save_seccomp_profile(profile) == File(profile)

\* What a file can be when save_seccomp_profile did not return (it raised, or
\* the process was interrupted inside it): open() failed and the file is as it
\* was, or open(path, 'w') truncated it and json.dump did not finish.
SaveCutShort(old) == {old, Partial}

-----------------------------------------------------------------------------
(* get_all_syscalls and remove_syscall_from_profile.                       *)

\* syscalls.extend(group['names']) over the groups, in order.
RECURSIVE Extend(_)
Extend(profile) ==
    IF profile = <<>> THEN <<>>
    ELSE Head(profile) \o Extend(Tail(profile))

Min(S) == CHOOSE x \in S : \A y \in S : x <= y

RECURSIVE Sorted(_)
Sorted(S) ==
    IF S = {} THEN <<>>
    ELSE <<Min(S)>> \o Sorted(S \ {Min(S)})

\* sorted(list(set(syscalls)))
get_all_syscalls(profile) == Sorted(Range(Extend(profile)))

\* The flattened syscall set of a profile.
Flat(profile) == Range(get_all_syscalls(profile))

\* list.remove(x): removes the first occurrence of x.
ListRemove(names, x) ==
    LET k == Min({j \in DOMAIN names : names[j] = x})
    IN SubSeq(names, 1, k - 1) \o SubSeq(names, k + 1, Len(names))

\* The body of the loop over the groups of the deep copy.
RemoveFromGroup(names, x) ==
    IF x \in Range(names) THEN ListRemove(names, x) ELSE names

remove_syscall_from_profile(profile, syscall_name) ==
    [g \in DOMAIN profile |-> RemoveFromGroup(profile[g], syscall_name)]

-----------------------------------------------------------------------------
(* The run: minimize_seccomp_profile under the __main__ handlers.          *)

VARIABLES
    seccomp_default,     \* file seccomp-default.json (the baseline, read only)
    seccomp_json,        \* file seccomp.json (working_profile_path)
    seccomp_minimized,   \* file seccomp-minimized.json
    test_file,           \* file seccomp_test_<syscall>.json of the current trial
    working_profile,
    all_syscalls,
    i,                   \* position of the current candidate in all_syscalls, from 1
    necessary_syscalls,
    test_profile,
    pc,
    instance,            \* the flask:0.0.3 container bound to port 5000
    others,              \* some container of another image is running on the host
    launchState,         \* where run_container_with_profile got to in this trial
    verified,            \* test_web_functionality was called in this trial
    outcome,             \* how the last trial ended
    working_before,      \* working_profile when the current trial began
    committed,           \* syscalls of the trials that ended in Success
    tornDown,            \* stop_container ran since the last docker run
    consistent,          \* the required sets R every outcome so far agrees with
    logsFetched,         \* docker logs was run in the trial under way
    trialed,             \* the candidates put on trial so far, in order
    answers,             \* the answers the verifier got in the trial under way
    blocked              \* the process waits on a call that never returns

files == <<seccomp_default, seccomp_json, seccomp_minimized, test_file>>
memory == <<working_profile, all_syscalls, i, necessary_syscalls, test_profile>>
runtime == <<instance, others>>
history == <<launchState, verified, outcome, working_before, committed, tornDown,
             consistent>>
audit == <<logsFetched, trialed, answers>>
vars == <<files, memory, runtime, history, audit, blocked, pc>>

syscall == all_syscalls[i]

Init ==
    /\ seccomp_default \in {File(p) : p \in Profiles} \cup {Malformed}
    /\ seccomp_json = Absent
    /\ seccomp_minimized = Absent
    /\ test_file = Absent
    /\ working_profile = <<>>
    /\ all_syscalls = <<>>
    /\ i = 0
    /\ necessary_syscalls = {}
    /\ test_profile = <<>>
    /\ pc = "start"
    /\ instance = "none"
    /\ others \in BOOLEAN
    /\ launchState = "Idle"
    /\ verified = FALSE
    /\ outcome = "None"
    /\ working_before = <<>>
    /\ committed = {}
    /\ tornDown = TRUE
    /\ consistent = {}
    /\ logsFetched = FALSE
    /\ trialed = <<>>
    /\ answers = <<>>
    /\ blocked = FALSE

-----------------------------------------------------------------------------
(* The container runtime as the program drives it.                         *)

\* stop_container: docker ps -q --filter ancestor=flask:0.0.3, then docker stop
\* of each id listed. A running instance is listed and stopped (started with
\* --rm, it is removed too); an instance that is not running yet is not listed.
StopResults(inst) ==
    IF inst = "running" THEN {"none"} ELSE {inst}

\* A stop_container that stopped whatever is running on the host.
OthersAfterStopAll(oth) == FALSE

\* stop_container lists with --filter ancestor=flask:0.0.3: a container of
\* another image is not listed and is left as it is.
OthersAfterStop(oth) == oth

\* stop_all_containers: docker ps -q, docker stop and docker rm of every
\* running container of the host, CalledProcessError caught and logged.
StopAllResults(inst, oth) ==
    {<<inst, oth>>, <<IF inst = "running" THEN "none" ELSE inst, FALSE>>}

\* subprocess.run(cmd, timeout=30) killed the docker client: the daemon did not
\* start the container, has started it, or is still starting it.
TimeoutResults(inst) ==
    IF inst = "running" THEN {"running"}
    ELSE IF inst = "pending" THEN {"pending", "running"}
    ELSE {"none", "pending", "running"}

\* The except clauses of __main__: stop_container(), sys.exit(1).
MainHandler(status, inst, oth) ==
    /\ instance' \in StopResults(inst)
    /\ others' = OthersAfterStop(oth)
    /\ tornDown' = TRUE
    /\ pc' = status

-----------------------------------------------------------------------------
(* Run start: lines 238-256.                                               *)

Start ==
    /\ pc = "start"
    /\ ~blocked
    /\ Loadable(seccomp_default)
    /\ \E r \in StopAllResults(instance, others) :
          /\ instance' = r[1]
          /\ others' = r[2]
    /\ working_profile' = load_seccomp_profile(seccomp_default)
    /\ seccomp_json' = save_seccomp_profile(working_profile')
    /\ all_syscalls' = get_all_syscalls(working_profile')
    /\ necessary_syscalls' = {}
    /\ i' = 1
    /\ consistent' = SUBSET Flat(working_profile')
    /\ pc' = "loop"
    /\ UNCHANGED <<audit, blocked>>
    /\ UNCHANGED <<seccomp_default, seccomp_minimized, test_file, test_profile,
                   launchState, verified, outcome, working_before, committed, tornDown>>

\* load_seccomp_profile raised (no parseable baseline), or the first save of
\* seccomp.json raised: the exception reaches __main__.
StartAbort ==
    /\ pc = "start"
    /\ ~blocked
    /\ \E r \in StopAllResults(instance, others) :
          MainHandler("aborted", r[1], r[2])
    /\ IF Loadable(seccomp_default)
       THEN seccomp_json' \in SaveCutShort(seccomp_json)
       ELSE seccomp_json' = seccomp_json
    /\ UNCHANGED <<audit, blocked>>
    /\ UNCHANGED <<seccomp_default, seccomp_minimized, test_file, memory,
                   launchState, verified, outcome, working_before, committed, consistent>>

-----------------------------------------------------------------------------
(* One trial: lines 259-295.                                               *)

\* Lines 262-265: the test profile is built and written, before the try.
BeginTrial ==
    /\ pc = "loop"
    /\ ~blocked
    /\ i <= Len(all_syscalls)
    /\ test_profile' = remove_syscall_from_profile(working_profile, syscall)
    /\ test_file' = save_seccomp_profile(test_profile')
    /\ working_before' = working_profile
    /\ launchState' = "Launching"
    /\ verified' = FALSE
    /\ outcome' = "Pending"
    /\ logsFetched' = FALSE
    /\ trialed' = Append(trialed, syscall)
    /\ answers' = <<>>
    /\ UNCHANGED blocked
    /\ pc' = "pre_stop"
    /\ UNCHANGED <<seccomp_default, seccomp_json, seccomp_minimized, working_profile,
                   all_syscalls, i, necessary_syscalls, runtime, committed, tornDown,
                   consistent>>

\* save_seccomp_profile(test_profile, test_profile_path) raised: line 265 is
\* outside the try, the exception reaches __main__.
BeginTrialAbort ==
    /\ pc = "loop"
    /\ ~blocked
    /\ i <= Len(all_syscalls)
    /\ test_file' \in SaveCutShort(test_file)
    /\ MainHandler("aborted", instance, others)
    /\ UNCHANGED <<audit, blocked>>
    /\ UNCHANGED <<seccomp_default, seccomp_json, seccomp_minimized, memory,
                   launchState, verified, outcome, working_before, committed, consistent>>

\* Line 269: stop_container() before the launch.
PreStop ==
    /\ pc = "pre_stop"
    /\ ~blocked
    /\ instance' \in StopResults(instance)
    /\ others' = OthersAfterStop(others)
    /\ tornDown' = TRUE
    /\ pc' = "docker_run"
    /\ UNCHANGED <<audit, blocked>>
    /\ UNCHANGED <<files, memory, launchState, verified, outcome,
                   working_before, committed, consistent>>

\* A run_container_with_profile that took a failed inspect for a running
\* container.
LaunchReturnLax(state) == state \in {"Running", "InspectFailed"}

\* A run_container_with_profile whose except TimeoutExpired returned True.
LaunchReturnTimeoutOk(state) == state \in {"Running", "Timeout"}

\* The value run_container_with_profile returns from each of its exits.
LaunchReturn(state) == state = "Running"

\* Lines 272-284 once run_container_with_profile returned from `state`.
AfterLaunch(state) ==
    /\ launchState' = state
    /\ IF LaunchReturn(state)
       THEN /\ pc' = "verify"
            /\ UNCHANGED <<necessary_syscalls, outcome>>
       ELSE /\ pc' = "finally"
            /\ necessary_syscalls' = necessary_syscalls \cup {syscall}
            /\ outcome' = "StartupFailure"

\* Lines 105-126 and 158-163: docker run -d --rm -p 5000:5000 under the test
\* profile. The published port is taken while an instance is running.
DockerRun ==
    /\ pc = "docker_run"
    /\ ~blocked
    /\ tornDown' = FALSE
    /\ \/ /\ instance # "running"
          /\ instance' = "running"
          /\ launchState' = "Started"
          /\ pc' = "inspect"
          /\ UNCHANGED <<necessary_syscalls, outcome>>
       \/ /\ instance' = instance
          /\ AfterLaunch("StartFailure")
       \/ /\ instance' \in TimeoutResults(instance)
          /\ AfterLaunch("Timeout")
       \/ /\ instance' = instance
          /\ AfterLaunch("LaunchException")
    /\ UNCHANGED <<audit, blocked>>
    /\ UNCHANGED <<files, working_profile, all_syscalls, i, test_profile, others,
                   verified, working_before, committed, consistent>>

\* Lines 128-156: time.sleep(5), docker inspect, docker logs when not running.
Inspect ==
    /\ pc = "inspect"
    /\ ~blocked
    /\ \/ /\ instance' = "running"
          /\ AfterLaunch("Running")
          /\ UNCHANGED logsFetched
       \/ /\ instance' = "none"
          /\ AfterLaunch("NotRunning")
          /\ logsFetched' = TRUE
       \/ /\ instance' \in {"none", "running"}
          /\ AfterLaunch("InspectFailed")
          /\ UNCHANGED logsFetched
       \/ /\ instance' = instance
          /\ AfterLaunch("LaunchException")
          /\ UNCHANGED logsFetched
    /\ UNCHANGED <<trialed, answers, blocked>>
    /\ UNCHANGED <<files, working_profile, all_syscalls, i, test_profile, others,
                   verified, working_before, committed, tornDown, consistent>>

\* An answer to one request: status 200, another 2xx status, a status outside
\* 2xx, or no answer (transport error, timeout).
Responses == {"ok", "other2xx", "bad", "error"}

\* The requests test_web_functionality sends, as the answers they got: it
\* stops after the first answer that is not a 200.
RECURSIVE ChecksExecuted(_)
ChecksExecuted(responses) ==
    IF responses = <<>> THEN <<>>
    ELSE IF Head(responses) # "ok" THEN <<Head(responses)>>
    ELSE <<Head(responses)>> \o ChecksExecuted(Tail(responses))

\* A verifier that lets any 2xx status pass.
AnySuccessStatus(responses) ==
    \A k \in 1..3 : responses[k] \in {"ok", "other2xx"}

\* test_web_functionality over the answers to its three requests, in order:
\* it returns False at the first one that is not a 200, or that raised.
test_web_functionality(responses) ==
    IF responses[1] # "ok" THEN FALSE
    ELSE IF responses[2] # "ok" THEN FALSE
    ELSE IF responses[3] # "ok" THEN FALSE
    ELSE TRUE

\* Lines 274-281, up to the commit. Nothing answers on port 5000 unless an
\* instance is running.
Verify ==
    /\ pc = "verify"
    /\ ~blocked
    /\ verified' = TRUE
    /\ \E responses \in [1..3 -> Responses] :
          /\ instance # "running" => \A k \in 1..3 : responses[k] = "error"
          /\ answers' = ChecksExecuted(responses)
          /\ IF test_web_functionality(responses)
             THEN /\ pc' = "commit"
                  /\ UNCHANGED <<necessary_syscalls, outcome>>
             ELSE /\ pc' = "finally"
                  /\ necessary_syscalls' = necessary_syscalls \cup {syscall}
                  /\ outcome' = "FunctionalFailure"
    /\ UNCHANGED <<logsFetched, trialed, blocked>>
    /\ UNCHANGED <<files, working_profile, all_syscalls, i, test_profile, runtime,
                   launchState, working_before, committed, tornDown, consistent>>

\* A commit that rebuilt the profile from the baseline.
CommittedFromDefault ==
    remove_syscall_from_profile(load_seccomp_profile(seccomp_default), syscall)

\* Line 277: working_profile = test_profile.
CommittedProfile == test_profile

\* Lines 275-278, the save returning.
Commit ==
    /\ pc = "commit"
    /\ ~blocked
    /\ working_profile' = CommittedProfile
    /\ seccomp_json' = save_seccomp_profile(working_profile')
    /\ committed' = committed \cup {syscall}
    /\ outcome' = "Success"
    /\ pc' = "finally"
    /\ UNCHANGED <<audit, blocked>>
    /\ UNCHANGED <<seccomp_default, seccomp_minimized, test_file, all_syscalls, i,
                   necessary_syscalls, test_profile, runtime, launchState, verified,
                   working_before, tornDown, consistent>>

\* Lines 275-278 and 286-288: save_seccomp_profile(working_profile, ...) raised
\* after line 277 assigned working_profile; except Exception adds the syscall.
CommitSaveRaises ==
    /\ pc = "commit"
    /\ ~blocked
    /\ working_profile' = CommittedProfile
    /\ seccomp_json' \in SaveCutShort(seccomp_json)
    /\ necessary_syscalls' = necessary_syscalls \cup {syscall}
    /\ outcome' = "TrialError"
    /\ pc' = "finally"
    /\ UNCHANGED <<audit, blocked>>
    /\ UNCHANGED <<seccomp_default, seccomp_minimized, test_file, all_syscalls, i,
                   test_profile, runtime, launchState, verified, working_before,
                   committed, tornDown, consistent>>

\* A finally clause that only removed the test profile.
FinallyClauseNoStop ==
    /\ UNCHANGED <<instance, others, tornDown>>
    /\ test_file' = Absent

\* Lines 289-295: stop_container(), os.remove(test_profile_path).
FinallyClause ==
    /\ instance' \in StopResults(instance)
    /\ others' = OthersAfterStop(others)
    /\ tornDown' = TRUE
    /\ test_file' = Absent

\* The target started and passed the verifier under the test profile.
TargetPassed == outcome \in {"Success", "TrialError"}

\* The required sets the trial agrees with: the target passed exactly when the
\* test profile contains all of R.
Agreeing(R) == TargetPassed <=> (R \subseteq Flat(test_profile))

\* The finally clause of a trial that ran to its end, and the next iteration.
Finally ==
    /\ pc = "finally"
    /\ ~blocked
    /\ FinallyClause
    /\ consistent' = {R \in consistent : Agreeing(R)}
    /\ answers' = <<>>
    /\ i' = i + 1
    /\ pc' = "loop"
    /\ UNCHANGED <<logsFetched, trialed, blocked>>
    /\ UNCHANGED <<seccomp_default, seccomp_json, seccomp_minimized, working_profile,
                   all_syscalls, necessary_syscalls, test_profile, launchState,
                   verified, outcome, working_before, committed>>

-----------------------------------------------------------------------------
(* Run end, exceptions and interrupts.                                     *)

\* Lines 297-310: stop_container(), the minimized profile is saved, the report.
FinishRun ==
    /\ pc = "loop"
    /\ ~blocked
    /\ i > Len(all_syscalls)
    /\ instance' \in StopResults(instance)
    /\ others' = OthersAfterStop(others)
    /\ tornDown' = TRUE
    /\ seccomp_minimized' = save_seccomp_profile(working_profile)
    /\ pc' = "done"
    /\ UNCHANGED <<audit, blocked>>
    /\ UNCHANGED <<seccomp_default, seccomp_json, test_file, memory,
                   launchState, verified, outcome, working_before, committed, consistent>>

\* save_seccomp_profile(working_profile, "seccomp-minimized.json") raised.
FinishAbort ==
    /\ pc = "loop"
    /\ ~blocked
    /\ i > Len(all_syscalls)
    /\ seccomp_minimized' \in SaveCutShort(seccomp_minimized)
    /\ \E left \in StopResults(instance) : MainHandler("aborted", left, others)
    /\ UNCHANGED <<audit, blocked>>
    /\ UNCHANGED <<seccomp_default, seccomp_json, test_file, memory,
                   launchState, verified, outcome, working_before, committed, consistent>>

InTry == pc \in {"pre_stop", "docker_run", "inspect", "verify", "commit", "finally"}

\* KeyboardInterrupt at the current step: it is no Exception, so it passes the
\* except clauses of the callees and of the trial, runs the finally clause when
\* raised inside the try, and reaches except KeyboardInterrupt of __main__. A
\* save it lands in is cut short; a docker run it lands in is killed like one
\* that timed out; raised inside the finally clause's stop_container, it skips
\* the os.remove that follows.
Interrupt ==
    /\ pc \in {"start", "loop"} \/ InTry
    /\ blocked' = FALSE
    /\ seccomp_json' \in
          IF pc \in {"start", "commit"} THEN SaveCutShort(seccomp_json)
          ELSE {seccomp_json}
    /\ test_file' \in
          IF pc = "finally" THEN {Absent, test_file}
          ELSE IF InTry THEN {Absent}
          ELSE IF pc = "loop" /\ i <= Len(all_syscalls) THEN SaveCutShort(test_file)
          ELSE {test_file}
    /\ seccomp_minimized' \in
          IF pc = "loop" /\ i > Len(all_syscalls) THEN SaveCutShort(seccomp_minimized)
          ELSE {seccomp_minimized}
    /\ \E r \in (IF pc = "start" THEN StopAllResults(instance, others)
                 ELSE {<<instance, others>>}) :
          \E launched \in (IF pc = "docker_run" THEN TimeoutResults(r[1])
                            ELSE {r[1]}) :
              \E left \in (IF InTry THEN StopResults(launched) ELSE {launched}) :
                  MainHandler("exited", left, IF InTry THEN OthersAfterStop(r[2]) ELSE r[2])
    /\ logsFetched' = FALSE
    /\ answers' = <<>>
    /\ UNCHANGED trialed
    /\ UNCHANGED <<seccomp_default, memory, launchState, verified, outcome,
                   working_before, committed, consistent>>

\* The daemon finishes starting the container of a docker run whose client
\* was killed at the timeout.
LateStart ==
    /\ instance = "pending"
    /\ instance' = "running"
    /\ UNCHANGED <<files, memory, others, history, audit, blocked, pc>>

\* subprocess.run without timeout= (docker ps, docker stop, docker rm, docker
\* inspect, docker logs: lines 34-57, 132-150, 219-231) waits for as long as the
\* docker command takes: here it never returns.
Hang ==
    /\ ~blocked
    /\ \/ pc \in {"start", "pre_stop", "inspect", "finally"}
       \/ pc = "loop" /\ i > Len(all_syscalls)
    /\ blocked' = TRUE
    /\ UNCHANGED <<files, memory, runtime, history, audit, pc>>

Next ==
    \/ Start
    \/ StartAbort
    \/ BeginTrial
    \/ BeginTrialAbort
    \/ PreStop
    \/ DockerRun
    \/ Inspect
    \/ Verify
    \/ Commit
    \/ CommitSaveRaises
    \/ Finally
    \/ FinishRun
    \/ FinishAbort
    \/ Hang
    \/ Interrupt
    \/ LateStart

Spec == Init /\ [][Next]_vars

-----------------------------------------------------------------------------
(* The claims.                                                             *)

Baseline == load_seccomp_profile(seccomp_default)

TrialEnded == pc \in {"loop", "done"} /\ outcome # "None"

lastSyscall == all_syscalls[i - 1]

\* C1: a trial that ended in anything other than Success put its candidate in
\* the necessary set and left the in-memory working profile as it was when the
\* trial began.
C1_NonSuccessLeavesWorking ==
    (TrialEnded /\ outcome # "Success") =>
        /\ lastSyscall \in necessary_syscalls
        /\ working_profile = working_before

\* C2: at run end the necessary set and the removed set (baseline names absent
\* from the final working profile) are disjoint and together make up the
\* baseline's flattened set.
C2_NecessaryRemovedPartition ==
    pc = "done" =>
        LET removed == Flat(Baseline) \ Flat(working_profile)
        IN /\ necessary_syscalls \cap removed = {}
           /\ necessary_syscalls \cup removed = Flat(Baseline)

\* The baseline with every occurrence of the names of S taken out of every group.
Without(profile, S) ==
    [g \in DOMAIN profile |-> SelectSeq(profile[g], LAMBDA y : y \notin S)]

\* C3: after an interrupt at any point of the loop, seccomp.json holds a
\* complete, loadable profile equal to the baseline minus exactly the syscalls
\* committed by the Success trials so far.
C3_WorkingFileAfterInterrupt ==
    (pc = "exited" /\ i >= 1) =>
        /\ Loadable(seccomp_json)
        /\ load_seccomp_profile(seccomp_json) = Without(Baseline, committed)

\* C4: the working profile's flattened set never gains a name and never grows
\* from one step of the run to the next, and the flattened set of the final
\* profile is a subset of the baseline's.
C4_WorkingNeverGrows ==
    [][/\ (pc # "start" /\ working_profile' # working_profile) =>
            /\ Flat(working_profile') \subseteq Flat(working_profile)
            /\ Cardinality(Flat(working_profile')) <= Cardinality(Flat(working_profile))
       /\ pc' = "done" =>
            Flat(load_seccomp_profile(seccomp_minimized')) \subseteq Flat(Baseline)]_vars

\* A run that committed one removal, kept another name and reached its end.
C4_Witness ==
    /\ pc = "done"
    /\ committed # {}
    /\ Flat(working_profile) # {}
    /\ Flat(working_profile) # Flat(Baseline)

\* C5: when every trial succeeded exactly when its test profile contained a
\* required set R, the run ends with the final flattened set and the necessary
\* set both equal to R.
C5_GreedyResult ==
    pc = "done" =>
        \A R \in consistent :
            /\ Flat(working_profile) = R
            /\ necessary_syscalls = R

\* C6: removing the candidate from the test profile again changes nothing:
\* withoutSyscall(withoutSyscall(P, n), n) = withoutSyscall(P, n).
C6_RemoveIdempotent ==
    pc = "pre_stop" =>
        remove_syscall_from_profile(test_profile, syscall) = test_profile

\* C7: the flattened set of withoutSyscall(P, n) is that of P minus n: n is in
\* no group of the result, every other name is kept and no group is dropped.
C7_FlattenedAfterRemove ==
    pc = "pre_stop" =>
        /\ get_all_syscalls(test_profile) = Sorted(Flat(working_profile) \ {syscall})
        /\ Len(test_profile) = Len(working_profile)
        /\ \A g \in DOMAIN test_profile :
              Range(test_profile[g]) = Range(working_profile[g]) \ {syscall}

\* C8: test_web_functionality is called in a trial only once its launch reached
\* Running; a launch that ended anywhere else is never followed by the verifier.
C8_VerifierOnlyAfterRunning ==
    (pc = "verify" \/ verified) => launchState = "Running"

\* A trial whose launch reached Running and whose verifier has run.
C8_Witness ==
    /\ pc = "finally"
    /\ verified
    /\ launchState = "Running"
    /\ outcome = "FunctionalFailure"

\* C9: at most one instance is alive at any time because every launch is
\* preceded by a teardown that leaves none running: when docker run begins, no
\* instance of an earlier trial is running, whatever that trial's outcome (a
\* launch that timed out included).
C9_NoInstanceAtLaunch ==
    pc = "docker_run" => instance # "running"

\* C10: stop_container has run since the last docker run at the end of every
\* trial, before every launch, at run end and at every exit of the process.
C10_TeardownEveryTrial ==
    pc \in {"loop", "docker_run", "done", "aborted", "exited"} => tornDown

\* An interrupt delivered while the launched instance was alive.
C10_Witness ==
    /\ pc = "exited"
    /\ launchState \in {"Started", "Running"}
    /\ outcome = "Pending"
    /\ tornDown

\* The candidate of the trial that is ending or has just ended.
trialSyscall == IF pc = "finally" THEN syscall ELSE lastSyscall

\* C11: a trial whose docker run timed out puts its candidate in the necessary
\* set and leaves the working profile unchanged; its teardown returns without
\* raising, and the run goes on to the next candidate.
C11_LaunchTimeout ==
    [][/\ (launchState' = "Timeout" /\ pc' \in {"finally", "loop", "done"}) =>
            /\ outcome' = "StartupFailure"
            /\ trialSyscall' \in necessary_syscalls'
            /\ working_profile' = working_before'
       /\ (launchState = "Timeout" /\ pc = "finally" /\ pc' \notin {"finally", "exited"}) =>
            /\ pc' = "loop"
            /\ i' = i + 1
            /\ UNCHANGED <<working_profile, necessary_syscalls>>]_vars

\* After a launch timeout that never brought an instance up, the teardown has
\* returned and the next candidate is on trial.
C11_Witness ==
    /\ pc = "loop"
    /\ launchState = "Timeout"
    /\ instance = "none"
    /\ i = 2
    /\ Len(all_syscalls) = 2
    /\ lastSyscall \in necessary_syscalls
    /\ working_profile = working_before

\* C12: the run aborts only when the baseline cannot be loaded or a write of the
\* working policy fails (seccomp.json at run start, the minimized profile at
\* run end): a failure inside one trial, the write of its test profile
\* included, never aborts the run, and a failed write of seccomp.json is never
\* absorbed as the outcome of a trial.
C12_AbortOnlyOnLoadOrWorkingSave ==
    /\ pc = "aborted" => (i = 0 \/ i > Len(all_syscalls))
    /\ outcome # "TrialError"

\* C13: whenever a launched instance turns out not to be running, docker logs
\* has been fetched by the time the launch returns failure, before the trial's
\* teardown: no not-running path returns without the captured output.
C13_LogsBeforeFailure ==
    (/\ pc = "finally"
     /\ launchState \in {"NotRunning", "InspectFailed"}
     /\ instance = "none") => logsFetched

\* C14: the candidate sequence is the baseline's flattened set, deduplicated
\* and in lexical order, computed once; the candidates are trialed one by one
\* in that order, each once, and a trial that ended produced exactly one of a
\* commit to the working profile and an addition to the necessary set.
C14_OneOutcomePerCandidate ==
    /\ i >= 1 =>
          /\ Range(all_syscalls) = Flat(Baseline)
          /\ \A j, k \in DOMAIN all_syscalls : j < k => all_syscalls[j] < all_syscalls[k]
    /\ trialed = SubSeq(all_syscalls, 1, Len(trialed))
    /\ pc = "done" => trialed = all_syscalls
    /\ TrialEnded =>
          (working_profile # working_before) # (lastSyscall \in necessary_syscalls)

\* The verifier of the trial has returned, and what it returned.
VerifierReturned == verified /\ pc \in {"commit", "finally"}

VerifierPassed == pc = "commit" \/ TargetPassed

\* The verifier sent its requests in order up to the first answer outside
\* Passing, sent none after it, and passed exactly when all three answers
\* were in Passing.
ShortCircuits(Passing) ==
    /\ Len(answers) \in 1..3
    /\ \A k \in 1..(Len(answers) - 1) : answers[k] \in Passing
    /\ Len(answers) < 3 => answers[Len(answers)] \notin Passing
    /\ VerifierPassed <=> (Len(answers) = 3 /\ \A k \in 1..3 : answers[k] \in Passing)

\* C15 as stated: test_web_functionality runs the read, the form write and the
\* structured write in that order, stops at the first check whose status is
\* outside the success range or that got no answer, and returns success exactly
\* when all three checks got a success status.
C15_SuccessRange == VerifierReturned => ShortCircuits({"ok", "other2xx"})

\* C15, amended: the same, where the only status that passes a check is 200:
\* any other status, a 2xx one included, fails the check and ends the battery.
C15_Status200Only == VerifierReturned => ShortCircuits({"ok"})

\* The read got a 200, the form write another 2xx status: the battery stopped
\* there and the candidate was found necessary.
C15_Witness ==
    /\ VerifierReturned
    /\ answers = <<"ok", "other2xx">>
    /\ outcome = "FunctionalFailure"
    /\ syscall \in necessary_syscalls

\* C16 as stated: the only instances the program stops or removes are
\* instances of the service image: a container of another image that is
\* running stays running through every step of the run.
C16_OthersUntouched == [][others => others']_vars

\* C16, amended: stop_all_containers at run start stops and removes every
\* running container of the host, whatever its image; after it, the program
\* stops only instances of the service image, and a container of another
\* image that is running then is still running when the run ends.
C16_OthersUntouchedAfterStart == [][pc # "start" => others' = others]_vars

\* A container of another image outlived stop_all_containers and a whole run
\* that removed a syscall.
C16_Witness ==
    /\ pc = "done"
    /\ others
    /\ committed # {}
    /\ instance = "none"

\* C17: a run whose baseline loaded reaches run end after as many trials as
\* the baseline's flattened set has names, because no blocking step of a trial
\* (launch, settle delay, running-state query, log retrieval, verifier
\* requests, teardown) can block forever: each has a ceiling.
C17_NoStepBlocksForever ==
    /\ ~(blocked /\ InTry)
    /\ pc = "done" => Len(trialed) = Cardinality(Flat(Baseline))

\* C18: when the run completes, seccomp-minimized.json holds the in-memory
\* working profile, which is also what seccomp.json holds, and its flattened
\* set is the baseline's flattened set minus exactly the candidates whose
\* trials ended in Success.
C18_FinalEqualsWorking ==
    pc = "done" =>
        /\ seccomp_minimized = File(working_profile)
        /\ seccomp_json = File(working_profile)
        /\ Flat(working_profile) = Flat(Baseline) \ committed

\* C19: in every state of the run, every syscall of the necessary set is
\* still in the flattened set of the working profile.
C19_NecessaryStillPresent ==
    necessary_syscalls \subseteq Flat(working_profile)

====
